---- MODULE Spec2Model ----
(***************************************************************************)
(* A model of the codebase assistant: CodebaseScanner (src/agent.py) and   *)
(* APIDocumentation (src/main_3.py).                                       *)
(*                                                                         *)
(* Text is modelled as TLA+ strings; Ch(s, i) is the i-th character.       *)
(* A scanned directory is a sequence of entries in the order rglob("*")    *)
(* yields them.  Every public operation is one action: it reads the        *)
(* directory, computes what the Python code computes and leaves the value  *)
(* it returns (or the fact that it raised) in `out`.                       *)
(***************************************************************************)
EXTENDS Integers, Sequences, FiniteSets, TLC

VARIABLES
    rootKind,   \* what the target directory is on disk: "dir", "file", "missing"
    tree,       \* the entries under the target directory, in rglob order
    out,        \* the value returned by the last operation
    codebase_root,  \* CodebaseScanner.codebase_root: the path the scanner is set to
    disk,       \* what every path a caller can name is on disk: [kind, tree]
    existing,   \* the directories of the clone area that exist
    effects     \* what the last GithubAccessLink call did outside the process, in order

vars == <<rootKind, tree, out, codebase_root, disk, existing, effects>>

\* the file system the scanner reads, and the world the clone tool acts on
scannerEnv == <<rootKind, tree, codebase_root, disk>>

githubEnv == <<existing, effects>>

(***************************************************************************)
(* Python string primitives used by the code.                              *)
(***************************************************************************)
Ch(s, i) == SubSeq(s, i, i)

Min(a, b) == IF a < b THEN a ELSE b

Max(a, b) == IF a > b THEN a ELSE b

UpperAlpha == "ABCDEFGHIJKLMNOPQRSTUVWXYZ"

LowerAlpha == "abcdefghijklmnopqrstuvwxyz"

Digits == "0123456789"

AlphaIndex(alpha, c) ==
    IF \E i \in 1..Len(alpha) : Ch(alpha, i) = c
    THEN CHOOSE i \in 1..Len(alpha) : Ch(alpha, i) = c
    ELSE 0

LowerCh(c) ==
    IF AlphaIndex(UpperAlpha, c) # 0 THEN Ch(LowerAlpha, AlphaIndex(UpperAlpha, c)) ELSE c

UpperCh(c) ==
    IF AlphaIndex(LowerAlpha, c) # 0 THEN Ch(UpperAlpha, AlphaIndex(LowerAlpha, c)) ELSE c

\* str.lower(): every character folded, nothing else changed.
RECURSIVE Lower(_)
Lower(s) ==
    IF Len(s) = 0 THEN ""
    ELSE IF Len(s) = 1 THEN LowerCh(s)
    ELSE LET h == Len(s) \div 2
         IN  Lower(SubSeq(s, 1, h)) \o Lower(SubSeq(s, h + 1, Len(s)))

\* str.upper()
RECURSIVE Upper(_)
Upper(s) ==
    IF Len(s) = 0 THEN ""
    ELSE IF Len(s) = 1 THEN UpperCh(s)
    ELSE LET h == Len(s) \div 2
         IN  Upper(SubSeq(s, 1, h)) \o Upper(SubSeq(s, h + 1, Len(s)))

IsSpace(c) == c \in {" ", "\t", "\n"}

\* s[:n] for a string, n >= 0
Prefix(s, n) == SubSeq(s, 1, Min(n, Len(s)))

\* s[:n] for a list: a negative n counts from the end, as Python slices do
ListPrefix(s, n) ==
    IF n >= 0 THEN SubSeq(s, 1, Min(n, Len(s)))
    ELSE SubSeq(s, 1, Max(0, Len(s) + n))

StartsWith(s, p) == Len(s) >= Len(p) /\ SubSeq(s, 1, Len(p)) = p

OccursAt(s, sub, i) == i >= 1 /\ i + Len(sub) - 1 <= Len(s) /\ SubSeq(s, i, i + Len(sub) - 1) = sub

\* str.find(sub, from), 1-based; 0 when sub does not occur at or after `from`
Find(s, sub, from) ==
    IF \E i \in from..Len(s) : OccursAt(s, sub, i)
    THEN CHOOSE i \in from..Len(s) :
            OccursAt(s, sub, i) /\ \A j \in from..(i - 1) : ~OccursAt(s, sub, j)
    ELSE 0

\* sub in s
Contains(s, sub) == Find(s, sub, 1) # 0

\* str.strip(): leading and trailing whitespace removed
Strip(s) ==
    IF \A i \in 1..Len(s) : IsSpace(Ch(s, i)) THEN ""
    ELSE LET a == CHOOSE i \in 1..Len(s) :
                    ~IsSpace(Ch(s, i)) /\ \A j \in 1..(i - 1) : IsSpace(Ch(s, j))
             b == CHOOSE i \in 1..Len(s) :
                    ~IsSpace(Ch(s, i)) /\ \A j \in (i + 1)..Len(s) : IsSpace(Ch(s, j))
         IN  SubSeq(s, a, b)

\* str.strip(c) for a one-character c: every leading and trailing c removed
StripChar(s, c) ==
    IF \A i \in 1..Len(s) : Ch(s, i) = c THEN ""
    ELSE LET a == CHOOSE i \in 1..Len(s) :
                    Ch(s, i) # c /\ \A j \in 1..(i - 1) : Ch(s, j) = c
             b == CHOOSE i \in 1..Len(s) :
                    Ch(s, i) # c /\ \A j \in (i + 1)..Len(s) : Ch(s, j) = c
         IN  SubSeq(s, a, b)

\* str.split(sep)[0]: the text before the first sep, all of s when there is none
BeforeFirst(s, sep) ==
    IF Find(s, sep, 1) = 0 THEN s ELSE SubSeq(s, 1, Find(s, sep, 1) - 1)

\* str.replace(old, ""): every non-overlapping occurrence of old removed, left to right
RECURSIVE RemoveAll(_, _)
RemoveAll(s, old) ==
    LET i == Find(s, old, 1)
    IN  IF i = 0 THEN s
        ELSE SubSeq(s, 1, i - 1) \o RemoveAll(SubSeq(s, i + Len(old), Len(s)), old)

\* str.split(): the maximal runs of non-whitespace characters, in order
RECURSIVE SplitFrom(_, _)
SplitFrom(s, from) ==
    IF \A i \in from..Len(s) : IsSpace(Ch(s, i)) THEN <<>>
    ELSE LET a == CHOOSE i \in from..Len(s) :
                    ~IsSpace(Ch(s, i)) /\ \A j \in from..(i - 1) : IsSpace(Ch(s, j))
             b == CHOOSE i \in a..Len(s) :
                    /\ \A j \in a..i : ~IsSpace(Ch(s, j))
                    /\ (i = Len(s) \/ IsSpace(Ch(s, i + 1)))
         IN  <<SubSeq(s, a, b)>> \o SplitFrom(s, b + 1)

Split(s) == SplitFrom(s, 1)

\* last position of character c in s, 0 when there is none
LastIndex(s, c) ==
    IF \E i \in 1..Len(s) : Ch(s, i) = c
    THEN CHOOSE i \in 1..Len(s) : Ch(s, i) = c /\ \A j \in (i + 1)..Len(s) : Ch(s, j) # c
    ELSE 0

\* the lines of s followed by a newline: s is cut at a newline near its middle
\* and the two parts are split in the same way
RECURSIVE TerminatedLines(_)
TerminatedLines(s) ==
    IF ~Contains(s, "\n") THEN <<s>>
    ELSE LET mid == (Len(s) + 1) \div 2
             m == IF Find(s, "\n", mid) # 0 THEN Find(s, "\n", mid)
                  ELSE LastIndex(SubSeq(s, 1, mid - 1), "\n")
         IN  TerminatedLines(SubSeq(s, 1, m - 1)) \o TerminatedLines(SubSeq(s, m + 1, Len(s)))

\* str.splitlines() over "\n": a trailing newline opens no further line
SplitLines(s) ==
    IF s = "" THEN <<>>
    ELSE IF Ch(s, Len(s)) = "\n" THEN TerminatedLines(SubSeq(s, 1, Len(s) - 1))
    ELSE TerminatedLines(s)

\* n copies of the string c
RECURSIVE Repeat(_, _)
Repeat(c, n) ==
    IF n = 0 THEN ""
    ELSE LET h == Repeat(c, n \div 2)
         IN  IF n % 2 = 0 THEN h \o h ELSE h \o h \o c

(***************************************************************************)
(* The fuzzy matcher.  fuzzy_match is imported from the connectonion       *)
(* library (src/agent.py line 11); its body is not in the repository, so   *)
(* it is modelled from the design's contract for the matcher: the query    *)
(* must be a subsequence of the candidate (no case folding by the matcher);*)
(* the score is 0 when it is not, and otherwise a positive number that     *)
(* grows with contiguity, with an early first match and with a short       *)
(* candidate; the empty query matches with the baseline score.  The result *)
(* is the tuple whose second component is the score, the shape the callers *)
(* unpack.                                                                 *)
(***************************************************************************)
\* first position after p holding character c, 0 when there is none
NextPos(text, c, p) ==
    IF \E i \in (p + 1)..Len(text) : Ch(text, i) = c
    THEN CHOOSE i \in (p + 1)..Len(text) :
            Ch(text, i) = c /\ \A j \in (p + 1)..(i - 1) : Ch(text, j) # c
    ELSE 0

\* leftmost alignment of query[k..] after position p; cut short where it fails
RECURSIVE Align(_, _, _, _)
Align(query, text, k, p) ==
    IF k > Len(query) THEN <<>>
    ELSE LET i == NextPos(text, Ch(query, k), p)
         IN  IF i = 0 THEN <<>> ELSE <<i>> \o Align(query, text, k + 1, i)

fuzzy_match(query, text) ==
    LET pos == Align(query, text, 1, 0)
        matched == Len(pos) = Len(query)
        runs == Cardinality({k \in 2..Len(pos) : pos[k] = pos[k - 1] + 1})
        early == IF Len(pos) = 0 THEN 0 ELSE Max(0, 4 - pos[1])
        short == Max(0, 3 - (Len(text) - Len(query)))
    IN  IF matched THEN <<TRUE, 1 + 2 * runs + early + short, pos>>
        ELSE <<FALSE, 0, <<>>>>

\* result[1] if isinstance(result, tuple) and len(result) >= 2 else result
ResultScore(result) == result[2]

(***************************************************************************)
(* Files.  An entry is [path, kind, perm, bytes]: the path relative to the *)
(* target directory, "file" or "dir", whether open() succeeds, and the     *)
(* stored bytes (BadByte stands for a byte that is not valid UTF-8).       *)
(***************************************************************************)
BadByte == "%"

File(path, bytes) == [path |-> path, kind |-> "file", perm |-> "ok", bytes |-> bytes]

Dir(path) == [path |-> path, kind |-> "dir", perm |-> "ok", bytes |-> ""]

Denied(path, bytes) == [path |-> path, kind |-> "file", perm |-> "denied", bytes |-> bytes]

CODE_EXTENSIONS ==
    {".py", ".js", ".ts", ".tsx", ".jsx", ".rs", ".go", ".java", ".cpp", ".c", ".h", ".hpp"}

\* Path.name: the final component
PathName(path) == SubSeq(path, LastIndex(path, "/") + 1, Len(path))

\* Path.suffix: from the last dot of the name, unless the name starts or ends with it
Suffix(path) ==
    LET name == PathName(path)
        i == LastIndex(name, ".")
    IN  IF i > 1 /\ i < Len(name) THEN SubSeq(name, i, Len(name)) ELSE ""

\* open() fails on this entry (no read permission): read_text raises OSError
Unreadable(f) == f.perm = "denied"

\* bytes.decode("utf-8", errors="ignore"): the invalid bytes are dropped
RECURSIVE Decode(_)
Decode(b) ==
    IF Len(b) = 0 THEN ""
    ELSE IF Len(b) = 1 THEN (IF b = BadByte THEN "" ELSE b)
    ELSE LET h == Len(b) \div 2
         IN  Decode(SubSeq(b, 1, h)) \o Decode(SubSeq(b, h + 1, Len(b)))

\* Path.read_text(encoding="utf-8", errors="ignore") on a file open() accepts
read_text(f) == Decode(f.bytes)

\* resolve_target_dir with neither repo_name nor folder_path: codebase_root itself
resolve_target_dir == IF rootKind = "dir" THEN "root" ELSE "None"

\* get_code_files without the is_file() test
get_code_files_any_kind(directory) ==
    IF rootKind # "dir" THEN <<>>
    ELSE SelectSeq(directory, LAMBDA f : Suffix(f.path) \in CODE_EXTENSIONS)

get_code_files(directory) ==
    IF rootKind # "dir" THEN <<>>
    ELSE SelectSeq(directory, LAMBDA f : f.kind = "file" /\ Suffix(f.path) \in CODE_EXTENSIONS)

(***************************************************************************)
(* Values returned by the operations.                                      *)
(***************************************************************************)
NoOut == [op |-> "none", status |-> "none"]

\* the operation raised: no value is returned
Raised(op) == [op |-> op, status |-> "raise"]

\* the operation raised while reading the path it was asked for
RaisedOn(op, file_path) == [op |-> op, status |-> "raise", file_path |-> file_path]

\* f"Folder/repository '{identifier}' not found."
NotFound(op) == [op |-> op, status |-> "not_found"]

\* f"No code files found in '{identifier}'."
NoCodeFiles(op) == [op |-> op, status |-> "no_code_files"]

(***************************************************************************)
(* Relevance ranking.                                                      *)
(***************************************************************************)
\* the sort without reverse=True: ascending by score
RECURSIVE SortAscending(_)
SortAscending(s) ==
    IF Len(s) <= 1 THEN s
    ELSE LET e == s[Len(s)]
             done == SortAscending(SubSeq(s, 1, Len(s) - 1))
             k == Cardinality({i \in 1..Len(done) : done[i].score <= e.score})
         IN  SubSeq(done, 1, k) \o <<e>> \o SubSeq(done, k + 1, Len(done))

\* a descending sort that is not stable: the ascending sort, reversed
SortDescUnstable(s) ==
    LET asc == SortAscending(s)
    IN  [i \in 1..Len(asc) |-> asc[Len(asc) + 1 - i]]

\* list.sort(reverse=True, key=score) / sorted(..., reverse=True, key=score):
\* descending by score, elements of equal score kept in their original order
RECURSIVE SortDesc(_)
SortDesc(s) ==
    IF Len(s) <= 1 THEN s
    ELSE LET e == s[Len(s)]
             done == SortDesc(SubSeq(s, 1, Len(s) - 1))
             k == Cardinality({i \in 1..Len(done) : done[i].score >= e.score})
         IN  SubSeq(done, 1, k) \o <<e>> \o SubSeq(done, k + 1, Len(done))

\* the loop of score_files_fuzzy with the test `score >= 0`
RECURSIVE ScoredFuzzyKeepZero(_, _)
ScoredFuzzyKeepZero(query, file_paths) ==
    IF file_paths = <<>> THEN <<>>
    ELSE LET path == Head(file_paths)
             score == ResultScore(fuzzy_match(Lower(query), Lower(path)))
         IN  (IF score >= 0 THEN <<[score |-> score, path |-> path]>> ELSE <<>>)
                \o ScoredFuzzyKeepZero(query, Tail(file_paths))

\* the scored entries of the loop of score_files_fuzzy, before the sort
RECURSIVE ScoredFuzzy(_, _)
ScoredFuzzy(query, file_paths) ==
    IF file_paths = <<>> THEN <<>>
    ELSE LET path == Head(file_paths)
             score == ResultScore(fuzzy_match(Lower(query), Lower(path)))
         IN  (IF score > 0 THEN <<[score |-> score, path |-> path]>> ELSE <<>>)
                \o ScoredFuzzy(query, Tail(file_paths))

score_files_fuzzy(query, file_paths) == SortDesc(ScoredFuzzy(query, file_paths))

format_search_results(query, scored_files, max_results) ==
    [op |-> "fuzzy_search_files", status |-> "ok", query |-> query,
     max_results |-> max_results,
     ranked |-> scored_files,
     count |-> Len(ListPrefix(scored_files, max_results)),
     shown |-> ListPrefix(scored_files, max_results),
     more |-> IF Len(scored_files) > max_results
              THEN Len(scored_files) - max_results ELSE 0]

fuzzy_search_files(query, max_results) ==
    IF resolve_target_dir = "None" THEN NotFound("fuzzy_search_files")
    ELSE LET code_files == get_code_files(tree)
             file_paths == [i \in 1..Len(code_files) |-> code_files[i].path]
             scored_files == score_files_fuzzy(query, file_paths)
         IN  IF code_files = <<>> THEN NoCodeFiles("fuzzy_search_files")
             ELSE IF scored_files = <<>>
                  THEN [op |-> "fuzzy_search_files", status |-> "no_match", query |-> query]
                  ELSE format_search_results(query, scored_files, max_results)

ContentPrefixLen == 1000

PathWeight == 3

ContentWeight == 2

TopRecommended == 5

\* the keyword loop reading the whole file instead of its first 1000 characters
RECURSIVE TotalScoreWholeFile(_, _)
TotalScoreWholeFile(f, keywords) ==
    IF keywords = <<>> THEN 0
    ELSE LET keyword == keywords[Len(keywords)]
             path_score == ResultScore(fuzzy_match(keyword, Lower(f.path)))
             content == Lower(read_text(f))
             content_score == ResultScore(fuzzy_match(keyword, content))
         IN  TotalScoreWholeFile(f, SubSeq(keywords, 1, Len(keywords) - 1))
                + path_score * PathWeight + content_score * ContentWeight

\* the keyword loop with the two weights exchanged
RECURSIVE TotalScoreSwapped(_, _)
TotalScoreSwapped(f, keywords) ==
    IF keywords = <<>> THEN 0
    ELSE LET keyword == keywords[Len(keywords)]
             path_score == ResultScore(fuzzy_match(keyword, Lower(f.path)))
             content == Lower(Prefix(read_text(f), ContentPrefixLen))
             content_score == ResultScore(fuzzy_match(keyword, content))
         IN  TotalScoreSwapped(f, SubSeq(keywords, 1, Len(keywords) - 1))
                + path_score * ContentWeight + content_score * PathWeight

\* the body of the keyword loop, summed over the keywords
RECURSIVE TotalScore(_, _)
TotalScore(f, keywords) ==
    IF keywords = <<>> THEN 0
    ELSE LET keyword == keywords[Len(keywords)]
             path_score == ResultScore(fuzzy_match(keyword, Lower(f.path)))
             content == Lower(Prefix(read_text(f), ContentPrefixLen))
             content_score == ResultScore(fuzzy_match(keyword, content))
         IN  TotalScore(f, SubSeq(keywords, 1, Len(keywords) - 1))
                + path_score * PathWeight + content_score * ContentWeight

RECURSIVE score_files_for_feature(_, _)
score_files_for_feature(code_files, keywords) ==
    IF code_files = <<>> THEN <<>>
    ELSE LET f == Head(code_files)
             total_score == TotalScore(f, keywords)
         IN  (IF total_score > 0 THEN <<[score |-> total_score, path |-> f.path]>> ELSE <<>>)
                \o score_files_for_feature(Tail(code_files), keywords)

\* the read inside the keyword loop raises on the first file open() refuses
FeatureScanRaises(code_files, keywords) ==
    keywords # <<>> /\ \E i \in 1..Len(code_files) : Unreadable(code_files[i])

recommend_files(feature_description) ==
    IF resolve_target_dir = "None" THEN NotFound("recommend_files")
    ELSE LET code_files == get_code_files(tree)
             keywords == Split(Lower(feature_description))
         IN  IF code_files = <<>> THEN NoCodeFiles("recommend_files")
             ELSE IF FeatureScanRaises(code_files, keywords) THEN Raised("recommend_files")
             ELSE LET scored_files == score_files_for_feature(code_files, keywords)
                      recommended == ListPrefix(SortDesc(scored_files), TopRecommended)
                  IN  [op |-> "recommend_files", status |-> "ok",
                       feature |-> feature_description, shown |-> recommended]

(***************************************************************************)
(* Structural extraction and symbol lookup.                                *)
(***************************************************************************)
ScanLimit == 100

\* what one line of the loop of extract_code_elements appends, and to which list
CodeElement(i, line) ==
    LET stripped == Strip(line)
    IN  IF StartsWith(stripped, "class ")
        THEN [list |-> "classes", line |-> i,
              name |-> StripChar(RemoveAll(BeforeFirst(stripped, "("), "class "), ":")]
        ELSE IF StartsWith(stripped, "def ")
        THEN LET func_name == Strip(RemoveAll(BeforeFirst(stripped, "("), "def "))
             IN  IF ~StartsWith(func_name, "_")
                 THEN [list |-> "functions", line |-> i, name |-> func_name]
                 ELSE [list |-> "none", line |-> i, name |-> ""]
        ELSE IF StartsWith(stripped, "import ") \/ StartsWith(stripped, "from ")
        THEN [list |-> "imports", line |-> i, name |-> stripped]
        ELSE [list |-> "none", line |-> i, name |-> ""]

\* the loop of extract_code_elements without the [:100] slice
AllLines(lines) == lines

\* the lines the loop visits: enumerate(lines[:100], 1)
ScannedLines(lines) == ListPrefix(lines, ScanLimit)

extract_code_elements(lines) ==
    LET scanned == ScannedLines(lines)
        found == [i \in 1..Len(scanned) |-> CodeElement(i, scanned[i])]
        classes == SelectSeq(found, LAMBDA e : e.list = "classes")
        functions == SelectSeq(found, LAMBDA e : e.list = "functions")
        imports == SelectSeq(found, LAMBDA e : e.list = "imports")
    IN  [classes |-> [k \in 1..Len(classes) |-> [name |-> classes[k].name, line |-> classes[k].line]],
         functions |-> [k \in 1..Len(functions) |-> [name |-> functions[k].name, line |-> functions[k].line]],
         imports |-> [k \in 1..Len(imports) |-> imports[k].name]]

\* the entry of the directory a relative path names, <<>> when there is none
Lookup(file_path) == SelectSeq(tree, LAMBDA f : f.path = file_path)

format_file_explanation(file_path, lines, elements) ==
    [op |-> "explain_file", status |-> "ok", file_path |-> file_path,
     n_lines |-> Len(lines), extension |-> Suffix(file_path),
     elements |-> elements,
     imports |-> ListPrefix(elements.imports, 8),
     classes |-> ListPrefix(elements.classes, 5),
     functions |-> ListPrefix(elements.functions, 8),
     preview |-> ListPrefix(lines, 25),
     more |-> IF Len(lines) > 25 THEN Len(lines) - 25 ELSE 0]

explain_file(file_path) ==
    IF resolve_target_dir = "None" THEN NotFound("explain_file")
    ELSE LET found == Lookup(file_path)
         IN  IF found = <<>>
             THEN [op |-> "explain_file", status |-> "file_not_found", file_path |-> file_path]
             ELSE IF found[1].kind # "file"
             THEN [op |-> "explain_file", status |-> "not_a_file", file_path |-> file_path]
             ELSE IF Unreadable(found[1]) THEN RaisedOn("explain_file", file_path)
             ELSE LET lines == SplitLines(read_text(found[1]))
                  IN  format_file_explanation(file_path, lines, extract_code_elements(lines))

\* the matches one file adds in find_function_definition / find_class_definition:
\* the lines holding one of the markers whose fuzzy score against the name exceeds 0.7
DefinitionMatches(f, name, markers) ==
    LET lines == SplitLines(read_text(f))
        hit(i) == /\ \E m \in markers : Contains(lines[i], m)
                  /\ LET score == ResultScore(fuzzy_match(Lower(name), Lower(Strip(lines[i]))))
                     IN  score # 0 /\ score * 10 > 7
        at == SelectSeq([i \in 1..Len(lines) |-> i], hit)
    IN  [k \in 1..Len(at) |-> [path |-> f.path, line |-> at[k], text |-> Strip(lines[at[k]])]]

RECURSIVE AllDefinitionMatches(_, _, _)
AllDefinitionMatches(code_files, name, markers) ==
    IF code_files = <<>> THEN <<>>
    ELSE DefinitionMatches(Head(code_files), name, markers)
            \o AllDefinitionMatches(Tail(code_files), name, markers)

find_definition(op, name, markers) ==
    IF resolve_target_dir = "None" THEN NotFound(op)
    ELSE LET code_files == get_code_files(tree)
         IN  IF \E i \in 1..Len(code_files) : Unreadable(code_files[i]) THEN Raised(op)
             ELSE LET matches == AllDefinitionMatches(code_files, name, markers)
                  IN  IF matches = <<>> THEN [op |-> op, status |-> "no_match", name |-> name]
                      ELSE [op |-> op, status |-> "ok", name |-> name,
                            count |-> Len(matches), shown |-> ListPrefix(matches, 10)]

find_function_definition(function_name) ==
    find_definition("find_function_definition", function_name, {"def ", "function "})

find_class_definition(class_name) ==
    find_definition("find_class_definition", class_name, {"class "})

(***************************************************************************)
(* The remaining operations of CodebaseScanner: the repository listing,    *)
(* the content window and the configured root.                             *)
(***************************************************************************)
\* the first component of a relative path
FirstComponent(path) ==
    LET i == Find(path, "/", 1) IN IF i = 0 THEN path ELSE SubSeq(path, 1, i - 1)

\* the names codebase_root.iterdir() yields that are directories: the entries of
\* kind "dir" directly under the root and the directories the deeper paths lie in
RECURSIVE ChildDirs(_, _)
ChildDirs(entries, seen) ==
    IF entries = <<>> THEN <<>>
    ELSE LET f == Head(entries)
             name == FirstComponent(f.path)
             isDir == Contains(f.path, "/") \/ f.kind = "dir"
         IN  IF isDir /\ name \notin seen
             THEN <<name>> \o ChildDirs(Tail(entries), seen \cup {name})
             ELSE ChildDirs(Tail(entries), seen)

list_repositories ==
    IF rootKind = "missing" THEN [op |-> "list_repositories", status |-> "does_not_exist"]
    ELSE IF rootKind # "dir" THEN Raised("list_repositories")
    ELSE LET repos == SelectSeq(ChildDirs(tree, {}), LAMBDA d : ~StartsWith(d, "."))
         IN  IF repos = <<>> THEN [op |-> "list_repositories", status |-> "no_repositories"]
             ELSE [op |-> "list_repositories", status |-> "ok", repos |-> repos]

\* seq[a:b] for a >= 0: a negative b counts from the end, both are cut to the length
PySlice(seq, a, b) ==
    LET n == Len(seq)
        stop == IF b < 0 THEN Max(0, n + b) ELSE Min(n, b)
        start == Min(n, a)
    IN  IF start < stop THEN SubSeq(seq, start + 1, stop) ELSE <<>>

\* the report of get_file_content: the header range, the labelled lines and the
\* count of the trailing "(N more lines)", 0 when that line is not written
ContentWindow(file_path, lines, start_line, num_lines) ==
    LET start_idx == Max(0, start_line - 1)
        end_idx == Min(Len(lines), start_idx + num_lines)
        selected_lines == PySlice(lines, start_idx, end_idx)
    IN  [op |-> "get_file_content", status |-> "ok", file_path |-> file_path,
         start_line |-> start_line, num_lines |-> num_lines,
         from |-> start_line, to |-> start_idx + Len(selected_lines),
         shown |-> [k \in 1..Len(selected_lines) |->
                        [label |-> start_line + k - 1, text |-> selected_lines[k]]],
         more |-> IF end_idx < Len(lines) THEN Len(lines) - end_idx ELSE 0]

\* get_file_content reads whatever the path names: there is no is_file() test
get_file_content(file_path, start_line, num_lines) ==
    IF resolve_target_dir = "None" THEN NotFound("get_file_content")
    ELSE LET found == Lookup(file_path)
         IN  IF found = <<>>
             THEN [op |-> "get_file_content", status |-> "file_not_found", file_path |-> file_path]
             ELSE IF found[1].kind # "file" \/ Unreadable(found[1])
             THEN RaisedOn("get_file_content", file_path)
             ELSE ContentWindow(file_path, SplitLines(read_text(found[1])), start_line, num_lines)

\* get_code_files called as a tool on the target directory
code_files_listing ==
    [op |-> "get_code_files", status |-> "ok", files |-> get_code_files(tree)]

\* set_codebase_path with the root assigned before the path is examined
set_codebase_path_unchecked(directory_path) ==
    LET kind == disk[directory_path].kind
    IN  [root |-> directory_path,
         out |-> [op |-> "set_codebase_path", path |-> directory_path,
                  status |-> IF kind = "missing" THEN "does_not_exist"
                             ELSE IF kind # "dir" THEN "not_a_directory" ELSE "ok"]]

\* set_codebase_path: the value returned and the root the scanner is left with
set_codebase_path(directory_path) ==
    LET kind == disk[directory_path].kind
    IN  IF kind = "missing"
        THEN [root |-> codebase_root,
              out |-> [op |-> "set_codebase_path", path |-> directory_path,
                       status |-> "does_not_exist"]]
        ELSE IF kind # "dir"
        THEN [root |-> codebase_root,
              out |-> [op |-> "set_codebase_path", path |-> directory_path,
                       status |-> "not_a_directory"]]
        ELSE [root |-> directory_path,
              out |-> [op |-> "set_codebase_path", path |-> directory_path, status |-> "ok"]]

(***************************************************************************)

(* Route extraction (APIDocumentation).  The five compiled patterns are    *)
(* modelled by what re.search finds: the leftmost position where the       *)
(* pattern matches, letters compared without case (re.IGNORECASE), the     *)
(* greedy parts taking as much as still lets the rest match.               *)
(***************************************************************************)
Quotes == {"\"", "'"}

Verbs == <<"get", "post", "put", "patch", "delete", "options", "head">>

\* \w
IsWordCh(c) == AlphaIndex(LowerAlpha, c) # 0 \/ AlphaIndex(UpperAlpha, c) # 0
                \/ AlphaIndex(Digits, c) # 0 \/ c = "_"

\* \b before a word character at position i
WordStart(s, i) == i = 1 \/ ~IsWordCh(Ch(s, i - 1))

\* the literal lit at position i, letters compared without case
LitAt(s, lit, i) ==
    i >= 1 /\ i + Len(lit) - 1 <= Len(s) /\ Lower(SubSeq(s, i, i + Len(lit) - 1)) = lit

\* \(\s*["']([^"']+) with the parenthesis at position j: the captured text,
\* "" when the pattern does not match there
ArgAt(s, j) ==
    IF ~(j >= 1 /\ j <= Len(s) /\ Ch(s, j) = "(") THEN ""
    ELSE IF \A k \in (j + 1)..Len(s) : IsSpace(Ch(s, k)) THEN ""
    ELSE LET q == CHOOSE k \in (j + 1)..Len(s) :
                    ~IsSpace(Ch(s, k)) /\ \A m \in (j + 1)..(k - 1) : IsSpace(Ch(s, m))
             e == IF \E k \in (q + 1)..Len(s) : Ch(s, k) \in Quotes
                  THEN (CHOOSE k \in (q + 1)..Len(s) :
                            Ch(s, k) \in Quotes /\ \A m \in (q + 1)..(k - 1) : Ch(s, m) \notin Quotes)
                  ELSE Len(s) + 1
         IN  IF Ch(s, q) \in Quotes THEN SubSeq(s, q + 1, e - 1) ELSE ""

\* (obj)\.(verb)\(\s*["']([^"']+) with obj starting at position i: the groups
\* <<obj, verb, route>> as they stand in the line, <<>> when it does not match there
CallAt(s, i, objs) ==
    LET hits == {<<o, v>> \in objs \X (1..Len(Verbs)) :
                    /\ LitAt(s, o, i)
                    /\ LitAt(s, ".", i + Len(o))
                    /\ LitAt(s, Verbs[v], i + Len(o) + 1)
                    /\ ArgAt(s, i + Len(o) + 1 + Len(Verbs[v])) # ""}
    IN  IF hits = {} THEN <<>>
        ELSE LET h == CHOOSE h \in hits : TRUE
                 o == h[1]
                 v == Verbs[h[2]]
             IN  <<SubSeq(s, i, i + Len(o) - 1),
                   SubSeq(s, i + Len(o) + 1, i + Len(o) + Len(v)),
                   ArgAt(s, i + Len(o) + 1 + Len(v))>>

\* the smallest member of a non-empty set of positions
Least(S) == CHOOSE x \in S : \A y \in S : x <= y

Greatest(S) == CHOOSE x \in S : \A y \in S : x >= y

\* @(app|api|router)\.(get|post|put|patch|delete|options|head)\(\s*["']([^"']+)
Pattern1(line) ==
    LET at == {i \in 1..Len(line) :
                    Ch(line, i) = "@" /\ CallAt(line, i + 1, {"app", "api", "router"}) # <<>>}
    IN  IF at = {} THEN <<>> ELSE CallAt(line, Least(at) + 1, {"app", "api", "router"})

\* @.*route\(\s*["']([^"']+)
Pattern2(line) ==
    LET ats == {i \in 1..Len(line) : Ch(line, i) = "@"}
        ends(i) == {j \in (i + 1)..Len(line) : LitAt(line, "route", j) /\ ArgAt(line, j + 5) # ""}
        at == {i \in ats : ends(i) # {}}
    IN  IF at = {} THEN <<>> ELSE <<ArgAt(line, Greatest(ends(Least(at))) + 5)>>

\* \b(app|router)\.(get|post|put|patch|delete|options|head)\(\s*["']([^"']+)
Pattern3(line) ==
    LET at == {i \in 1..Len(line) :
                    WordStart(line, i) /\ CallAt(line, i, {"app", "router"}) # <<>>}
    IN  IF at = {} THEN <<>> ELSE CallAt(line, Least(at), {"app", "router"})

\* \bpath\(\s*["']([^"']+)
Pattern4(line) ==
    LET at == {i \in 1..Len(line) :
                    WordStart(line, i) /\ LitAt(line, "path", i) /\ ArgAt(line, i + 4) # ""}
    IN  IF at = {} THEN <<>> ELSE <<ArgAt(line, Least(at) + 4)>>

\* \bre_path\(\s*["']([^"']+)
Pattern5(line) ==
    LET at == {i \in 1..Len(line) :
                    WordStart(line, i) /\ LitAt(line, "re_path", i) /\ ArgAt(line, i + 7) # ""}
    IN  IF at = {} THEN <<>> ELSE <<ArgAt(line, Least(at) + 7)>>

NumPatterns == 5

\* self.route_patterns[k - 1].search(line): the groups of the match, <<>> for None
PatternSearch(k, line) ==
    CASE k = 1 -> Pattern1(line)
      [] k = 2 -> Pattern2(line)
      [] k = 3 -> Pattern3(line)
      [] k = 4 -> Pattern4(line)
      [] k = 5 -> Pattern5(line)

\* the rules tried in the opposite order
route_patterns_reversed == <<5, 4, 3, 2, 1>>

\* the order in which the loop `for pattern in self.route_patterns` tries the rules
route_patterns == <<1, 2, 3, 4, 5>>

allowed_exts == {".py", ".js", ".ts", ".tsx", ".jsx"}

\* the entry with the method left as it was captured
RouteEntryAsCaptured(groups, f, line) ==
    [method |-> IF Len(groups) = 3 THEN groups[2] ELSE "GET",
     path |-> IF Len(groups) = 3 THEN groups[3] ELSE groups[Len(groups)],
     file |-> f.path,
     line |-> Prefix(Strip(line), 200)]

\* the dictionary appended for a match of one pattern on one line
RouteEntry(groups, f, line) ==
    [method |-> IF Len(groups) = 3 THEN Upper(groups[2]) ELSE "GET",
     path |-> IF Len(groups) = 3 THEN groups[3] ELSE groups[Len(groups)],
     file |-> f.path,
     line |-> Prefix(Strip(line), 200)]

\* the inner loop over the patterns for one line: the entry of the first pattern
\* that matches, then break
RECURSIVE LineEntries(_, _, _)
LineEntries(f, line, patterns) ==
    IF patterns = <<>> THEN <<>>
    ELSE LET groups == PatternSearch(Head(patterns), line)
         IN  IF groups = <<>> THEN LineEntries(f, line, Tail(patterns))
             ELSE <<RouteEntry(groups, f, line)>>

\* the loop over the lines of one file, the entries in line order
RECURSIVE FileEntries(_, _)
FileEntries(f, lines) ==
    IF lines = <<>> THEN <<>>
    ELSE IF Len(lines) = 1 THEN LineEntries(f, lines[1], route_patterns)
    ELSE LET h == Len(lines) \div 2
         IN  FileEntries(f, SubSeq(lines, 1, h)) \o FileEntries(f, SubSeq(lines, h + 1, Len(lines)))

\* the files the loop over repo_root.rglob("*") does not skip
RouteFiles(directory) ==
    IF rootKind # "dir" THEN <<>>
    ELSE SelectSeq(directory, LAMBDA f : f.kind = "file" /\ Lower(Suffix(f.path)) \in allowed_exts)

RECURSIVE AllEntries(_)
AllEntries(files) ==
    IF files = <<>> THEN <<>>
    ELSE FileEntries(Head(files), SplitLines(read_text(Head(files)))) \o AllEntries(Tail(files))

scan_api_endpoints ==
    IF rootKind = "missing"
    THEN [op |-> "scan_api_endpoints", status |-> "ok", entries |-> <<>>]
    ELSE IF \E i \in 1..Len(RouteFiles(tree)) : Unreadable(RouteFiles(tree)[i])
    THEN Raised("scan_api_endpoints")
    ELSE [op |-> "scan_api_endpoints", status |-> "ok", entries |-> AllEntries(RouteFiles(tree))]

(***************************************************************************)
(* Repository access and cloning (GithubAccessLink).  A call returns       *)
(* [out, existing, effects]: the value returned, the directories that      *)
(* exist afterwards, and what the call did outside the process, in order:  *)
(* [kind, arg, code] with kind "get" (code: the HTTP status), "mkdir" or   *)
(* "clone" (code: git's exit code).                                        *)
(***************************************************************************)
DEFAULT_CLONE_ROOT == "repos"

\* str(n) for n >= 0
RECURSIVE Decimal(_)
Decimal(n) ==
    IF n < 10 THEN Ch(Digits, n + 1) ELSE Decimal(n \div 10) \o Ch(Digits, (n % 10) + 1)

\* str.rstrip(c) for a one-character c
RECURSIVE RStripChar(_, _)
RStripChar(s, c) ==
    IF Len(s) > 0 /\ Ch(s, Len(s)) = c THEN RStripChar(SubSeq(s, 1, Len(s) - 1), c) ELSE s

\* github_url.rstrip("/").split("/")[-1] or "repo"
RepoName(github_url) ==
    LET u == RStripChar(github_url, "/")
        last == SubSeq(u, LastIndex(u, "/") + 1, Len(u))
    IN  IF last = "" THEN "repo" ELSE last

\* Path(dest_root) / repo_name
Destination(github_url, dest_root) == dest_root \o "/" \o RepoName(github_url)

Effect(kind, arg, code) == [kind |-> kind, arg |-> arg, code |-> code]

GithubOut(op, message) == [op |-> op, status |-> "ok", message |-> message]

\* requests.get raised (timeout, connection error): the exception leaves the call
NoResponse == 0

\* the message of check_github_repo for the status of the response
CheckMessage(status_code) ==
    IF status_code = 200 THEN "Repository is accessible (public)."
    ELSE IF status_code = 404
    THEN "Repository not found or private! Please link a valid public GitHub repository."
    ELSE "Repository returned status " \o Decimal(status_code) \o "."

check_github_repo(github_url, response) ==
    IF response = NoResponse
    THEN [out |-> Raised("check_github_repo"), existing |-> existing, effects |-> <<>>]
    ELSE [out |-> GithubOut("check_github_repo", CheckMessage(response)),
          existing |-> existing,
          effects |-> <<Effect("get", github_url, response)>>]

\* git clone: the destination is there afterwards exactly when git exits with 0
GitClone(dirs, destination, returncode) ==
    IF returncode = 0 THEN dirs \cup {destination} ELSE dirs

\* clone_github_repo: `result` of subprocess.run is not looked at
clone_github_repo(op, github_url, dest_root, returncode) ==
    LET destination == Destination(github_url, dest_root)
        mkdir == Effect("mkdir", dest_root, 0)
    IN  IF destination \in existing
        THEN [out |-> GithubOut(op, "Repository already exists at " \o destination),
              existing |-> existing \cup {dest_root}, effects |-> <<mkdir>>]
        ELSE [out |-> GithubOut(op, "Cloned to " \o destination),
              existing |-> GitClone(existing \cup {dest_root}, destination, returncode),
              effects |-> <<mkdir, Effect("clone", destination, returncode)>>]

\* navigate_and_clone cloning whatever the check said
navigate_and_clone_unchecked(github_url, dest_root, response, returncode) ==
    LET check == check_github_repo(github_url, response)
    IN  IF check.out.status = "raise"
        THEN [out |-> Raised("navigate_and_clone"), existing |-> existing, effects |-> <<>>]
        ELSE LET clone == clone_github_repo("navigate_and_clone", github_url, dest_root, returncode)
             IN  [out |-> GithubOut("navigate_and_clone",
                                    check.out.message \o "\n" \o clone.out.message),
                  existing |-> clone.existing,
                  effects |-> check.effects \o clone.effects]

navigate_and_clone(github_url, dest_root, response, returncode) ==
    LET check == check_github_repo(github_url, response)
    IN  IF check.out.status = "raise"
        THEN [out |-> Raised("navigate_and_clone"), existing |-> existing, effects |-> <<>>]
        ELSE IF ~Contains(check.out.message, "accessible (public)")
        THEN [out |-> GithubOut("navigate_and_clone", check.out.message),
              existing |-> existing, effects |-> check.effects]
        ELSE LET clone == clone_github_repo("navigate_and_clone", github_url, dest_root, returncode)
             IN  [out |-> GithubOut("navigate_and_clone",
                                    check.out.message \o "\n" \o clone.out.message),
                  existing |-> clone.existing,
                  effects |-> check.effects \o clone.effects]

\* clone_public_repo (main_3.py): the same steps, the exit code reported
clone_public_repo(github_url, dest_root, returncode) ==
    LET destination == Destination(github_url, dest_root)
        mkdir == Effect("mkdir", dest_root, 0)
    IN  IF destination \in existing
        THEN [out |-> GithubOut("clone_public_repo",
                                "Destination " \o destination
                                    \o " already exists. Remove it or choose another folder."),
              existing |-> existing \cup {dest_root}, effects |-> <<mkdir>>]
        ELSE [out |-> GithubOut("clone_public_repo",
                                IF returncode # 0
                                THEN "Failed to clone repo (code " \o Decimal(returncode) \o "): "
                                ELSE "Cloned to " \o destination),
              existing |-> GitClone(existing \cup {dest_root}, destination, returncode),
              effects |-> <<mkdir, Effect("clone", destination, returncode)>>]

(***************************************************************************)

(* The directories the operations are run on.                              *)
(***************************************************************************)
MaxTreeLen == 2

NumTied == 6

MaxResults == 3

DefaultMaxResults == 15

\* files for path search and feature recommendation
RankPool ==
    << File("auth/login.py", "def login(user):\n    pass\n"),
       File("utils/math.py", "import math\n"),
       File("auth/signup.py", "class Signup:\n    pass\n"),
       File("user.py", "login"),
       File("docs/notes.py", "# Login flow\n"),
       File("x/login.py", ""),
       File("y/login.py", ""),
       File("Login.py", "function login() {}\n"),
       File("big.py", Repeat("x", ContentPrefixLen) \o "login"),
       File("blob.py", "%lo%gin%"),
       Denied("secret.py", "login"),
       File("README.md", "login"),
       Dir("login.py") >>

\* files of equal path score for "login", told apart by their directory
TiedFile(i) == File(Ch("abcdefghijklmnop", i) \o "/login.py", "")

BigTrees ==
    LET tied == [i \in 1..NumTied |-> TiedFile(i)]
    IN  { <<RankPool[12], RankPool[2], RankPool[1], RankPool[13]>> \o tied \o <<RankPool[8]>>,
          tied \o <<RankPool[1], RankPool[4], RankPool[8]>>,
          <<RankPool[8], tied[1], RankPool[1]>> \o Tail(tied) }

\* files for structural extraction
BlankLines(n) == Repeat("\n", n)

StructPool ==
    << File("svc.py",
            "class UserAuth:\n    def login(self):\n        pass\n    def _hash(self, pw):\n        pass\n"),
       File("models.py",
            "import os\nfrom a import b\nclass Subclass (Base):\n  def run (self):\n    pass\nclass Plain:\ndef  _private():\ndef undef (x):\nclass A(B): # :\n"),
       File("long_a.py",
            "class Top:\n" \o BlankLines(ScanLimit - 2) \o "def edge():\nclass Over:\n"
                \o BlankLines(48) \o "class Late:\n"),
       File("long_b.py",
            "class Top:\n" \o BlankLines(ScanLimit - 2) \o "def edge():\ndef other():\nimport late\n"),
       File("short.py",
            "class Top:\n" \o BlankLines(ScanLimit - 2) \o "def edge():\n") >>

\* files for route extraction
RoutePool ==
    << File("api.py",
            "@app.get(\"/users/{id}\")\ndef user(id):\n@app.route('/home')\nrouter.post( \"/items\")\n@api.Delete(\"/d\")\n"),
       File("urls.py",
            "path(\"admin/\", admin)\nre_path('^r$', view)\nx = path('a')  # @my.route(\"b\")\nxpath('no')\n@a.route('/1') @b.route('/2')\n"),
       File("web/Routes.TS", "  app.put('/t', h) // router.get('/u')\napp.get(\"\")\n"),
       File("server.go", "router.get(\"/go\")\n"),
       File("blob.js", "%@app.%post(%'/bin')\n"),
       Denied("locked.ts", "@app.get('/locked')\n") >>

\* the sequences of at most n distinct entries of a pool, in every order
SeqsOver(pool, n) ==
    UNION {{t \in [1..k -> 1..Len(pool)] : \A i, j \in 1..k : i # j => t[i] # t[j]} : k \in 0..n}

TreesOver(pool) ==
    {[i \in 1..Len(t) |-> pool[t[i]]] : t \in SeqsOver(pool, MaxTreeLen)}

Trees == TreesOver(RankPool) \cup TreesOver(StructPool) \cup TreesOver(RoutePool) \cup BigTrees

Queries == {"login", "auth", "LOGIN", "", "zzz"}

Features == {"user login", "login", "User  LOGIN ", "", "auth signup math"}

Names == {"login", "Signup", "class"}

ExplainPaths == {"svc.py", "models.py", "long_a.py", "long_b.py", "short.py",
                 "auth/login.py", "login.py", "secret.py", "blob.py", "missing.py"}

\* the windows asked of get_file_content
ContentPaths == {"svc.py", "login.py", "secret.py", "missing.py"}

StartLines == {-1, 0, 1, 3, 5, 6, 8}

NumLines == {-1, 0, 1, 2, 50}

\* the paths a caller can name as a root, and what lies under them
RootPaths == {DEFAULT_CLONE_ROOT, "work", "notes.txt", "gone"}

Missing == [kind |-> "missing", tree |-> <<>>]

PlainFile == [kind |-> "file", tree |-> <<>>]

Directory(entries) == [kind |-> "dir", tree |-> entries]

SmallTrees == {<<>>, <<RankPool[1]>>, <<RankPool[4], RankPool[1]>>, <<StructPool[1], RankPool[13]>>}

\* the repositories asked for, the clone roots, the answers of the remote and of git
Urls == {"https://github.com/o/x", "https://github.com/o/x/", "https://github.com/o/y", ""}

DestRoots == {DEFAULT_CLONE_ROOT, "work"}

Responses == {NoResponse, 200, 404, 500}

ReturnCodes == {0, 128}

(***************************************************************************)
(* The state machine: calls are synchronous, one at a time; an operation   *)
(* is called when the previous value has been taken by the caller.         *)
(***************************************************************************)
Init ==
    /\ rootKind \in {"dir", "file", "missing"}
    /\ tree \in (IF rootKind = "dir" THEN Trees ELSE {<<>>})
    /\ out = NoOut
    /\ codebase_root = DEFAULT_CLONE_ROOT
    /\ disk = [p \in RootPaths |->
                    IF p = codebase_root THEN [kind |-> rootKind, tree |-> tree]
                    ELSE IF p = "notes.txt" THEN PlainFile ELSE Missing]
    /\ existing = {p \in RootPaths : disk[p].kind = "dir"}
    /\ effects = <<>>

Idle == out = NoOut

FuzzySearchFiles ==
    /\ Idle
    /\ \E query \in Queries, max_results \in (0..MaxResults) \cup {DefaultMaxResults} :
            out' = fuzzy_search_files(query, max_results)
    /\ UNCHANGED <<scannerEnv, githubEnv>>

RecommendFiles ==
    /\ Idle
    /\ \E feature_description \in Features : out' = recommend_files(feature_description)
    /\ UNCHANGED <<scannerEnv, githubEnv>>

ExplainFile ==
    /\ Idle
    /\ \E file_path \in ExplainPaths : out' = explain_file(file_path)
    /\ UNCHANGED <<scannerEnv, githubEnv>>

FindFunctionDefinition ==
    /\ Idle
    /\ \E function_name \in Names : out' = find_function_definition(function_name)
    /\ UNCHANGED <<scannerEnv, githubEnv>>

FindClassDefinition ==
    /\ Idle
    /\ \E class_name \in Names : out' = find_class_definition(class_name)
    /\ UNCHANGED <<scannerEnv, githubEnv>>

ScanApiEndpoints ==
    /\ Idle
    /\ out' = scan_api_endpoints
    /\ UNCHANGED <<scannerEnv, githubEnv>>

\* the caller takes the returned value (or handles the exception)
Return ==
    /\ ~Idle
    /\ out' = NoOut
    /\ UNCHANGED <<scannerEnv, githubEnv>>

ListRepositories ==
    /\ Idle
    /\ out' = list_repositories
    /\ UNCHANGED <<scannerEnv, githubEnv>>

GetFileContent ==
    /\ Idle
    /\ \E file_path \in ContentPaths, start_line \in StartLines, num_lines \in NumLines :
            out' = get_file_content(file_path, start_line, num_lines)
    /\ UNCHANGED <<scannerEnv, githubEnv>>

GetCodeFiles ==
    /\ Idle
    /\ out' = code_files_listing
    /\ UNCHANGED <<scannerEnv, githubEnv>>

\* between two calls something else changes what a path is on disk
DiskChange(p, entry) ==
    /\ Idle
    /\ disk[p] # entry
    /\ disk' = [disk EXCEPT ![p] = entry]
    /\ rootKind' = disk'[codebase_root].kind
    /\ tree' = disk'[codebase_root].tree
    /\ existing' = {d \in existing \cup {p} : d \in RootPaths => disk'[d].kind = "dir"}
    /\ UNCHANGED <<codebase_root, out, effects>>

RootRemoved == DiskChange(codebase_root, Missing)

RootReplacedByFile == rootKind = "dir" /\ DiskChange(codebase_root, PlainFile)

Next ==
    \/ FuzzySearchFiles
    \/ RecommendFiles
    \/ ExplainFile
    \/ FindFunctionDefinition
    \/ FindClassDefinition
    \/ ScanApiEndpoints
    \/ ListRepositories
    \/ GetFileContent
    \/ GetCodeFiles
    \/ RootRemoved
    \/ RootReplacedByFile
    \/ Return

Spec == Init /\ [][Next]_vars

(***************************************************************************)
(* The configured root: set_codebase_path among directories that come and  *)
(* go between the calls.                                                   *)
(***************************************************************************)
InitRoot ==
    /\ codebase_root = DEFAULT_CLONE_ROOT
    /\ disk \in {[p \in RootPaths |->
                    IF p = DEFAULT_CLONE_ROOT THEN a
                    ELSE IF p = "work" THEN b
                    ELSE IF p = "notes.txt" THEN PlainFile ELSE Missing] :
                 a \in {Directory(t) : t \in SmallTrees},
                 b \in {Missing, PlainFile} \cup {Directory(t) : t \in SmallTrees}}
    /\ rootKind = disk[codebase_root].kind
    /\ tree = disk[codebase_root].tree
    /\ out = NoOut
    /\ existing = {p \in RootPaths : disk[p].kind = "dir"}
    /\ effects = <<>>

SetCodebasePath ==
    /\ Idle
    /\ \E directory_path \in RootPaths :
            LET call == set_codebase_path(directory_path)
            IN  /\ out' = call.out
                /\ codebase_root' = call.root
    /\ rootKind' = disk[codebase_root'].kind
    /\ tree' = disk[codebase_root'].tree
    /\ UNCHANGED <<disk, githubEnv>>

PathRemoved == \E p \in {DEFAULT_CLONE_ROOT, "work"} : DiskChange(p, Missing)

PathReplacedByFile == \E p \in {DEFAULT_CLONE_ROOT, "work"} : DiskChange(p, PlainFile)

PathMadeDirectory ==
    \E p \in {DEFAULT_CLONE_ROOT, "work"}, t \in SmallTrees :
        disk[p].kind # "dir" /\ DiskChange(p, Directory(t))

NextRoot ==
    \/ SetCodebasePath
    \/ FuzzySearchFiles
    \/ RecommendFiles
    \/ ExplainFile
    \/ FindFunctionDefinition
    \/ FindClassDefinition
    \/ ListRepositories
    \/ GetFileContent
    \/ PathRemoved
    \/ PathReplacedByFile
    \/ PathMadeDirectory
    \/ Return

SpecRoot == InitRoot /\ [][NextRoot]_vars

(***************************************************************************)
(* Repository access: the calls of GithubAccessLink on a clone area whose  *)
(* destinations come and go.                                               *)
(***************************************************************************)
InitGithub ==
    /\ rootKind = "dir"
    /\ tree = <<>>
    /\ out = NoOut
    /\ codebase_root = DEFAULT_CLONE_ROOT
    /\ disk = [p \in RootPaths |->
                    IF p = codebase_root THEN Directory(<<>>)
                    ELSE IF p = "notes.txt" THEN PlainFile ELSE Missing]
    /\ existing = {DEFAULT_CLONE_ROOT}
    /\ effects = <<>>

\* a call of the clone tool: the value, the directories and the effects it leaves
GithubCall(call) ==
    /\ Idle
    /\ out' = call.out
    /\ existing' = call.existing
    /\ effects' = call.effects
    /\ UNCHANGED scannerEnv

CheckGithubRepo ==
    \E github_url \in Urls, response \in Responses :
        GithubCall(check_github_repo(github_url, response))

CloneGithubRepo ==
    \E github_url \in Urls, dest_root \in DestRoots, returncode \in ReturnCodes :
        GithubCall(clone_github_repo("clone_github_repo", github_url, dest_root, returncode))

NavigateAndClone ==
    \E github_url \in Urls, dest_root \in DestRoots, response \in Responses,
       returncode \in ReturnCodes :
        GithubCall(navigate_and_clone(github_url, dest_root, response, returncode))

ClonePublicRepo ==
    \E github_url \in Urls, dest_root \in DestRoots, returncode \in ReturnCodes :
        GithubCall(clone_public_repo(github_url, dest_root, returncode))

\* a cloned repository is deleted between two calls
DestinationRemoved ==
    /\ Idle
    /\ \E d \in existing : d \notin RootPaths /\ existing' = existing \ {d}
    /\ UNCHANGED <<scannerEnv, out, effects>>

NextGithub ==
    \/ CheckGithubRepo
    \/ CloneGithubRepo
    \/ NavigateAndClone
    \/ ClonePublicRepo
    \/ DestinationRemoved
    \/ Return

SpecGithub == InitGithub /\ [][NextGithub]_vars

(***************************************************************************)
(* Properties.                                                             *)
(***************************************************************************)
Returned(op) == out.op = op /\ out.status = "ok"

\* position of a path in the enumeration of the directory
TreeIndex(path) == CHOOSE i \in 1..Len(tree) : tree[i].path = path

IsCodeFile(f) == f.kind = "file" /\ Suffix(f.path) \in CODE_EXTENSIONS

\* the enumerated code files, as positions of the directory
CodeFileIndices == {i \in 1..Len(tree) : IsCodeFile(tree[i])}

Descending(list) == \A i \in 1..(Len(list) - 1) : list[i].score >= list[i + 1].score

AllPositive(list) == \A i \in 1..Len(list) : list[i].score > 0

Paths(list) == {list[i].path : i \in 1..Len(list)}

\* score a list gives to a path, 0 when the path is not listed
ScoreIn(list, path) ==
    IF path \in Paths(list)
    THEN list[CHOOSE i \in 1..Len(list) : list[i].path = path].score
    ELSE 0

\* C1: the list returned by path search and the list rendered by feature
\* recommendation are in non-increasing score order and hold no entry of score <= 0.
C1_RankedDescendingPositive ==
    /\ Returned("fuzzy_search_files") => Descending(out.ranked) /\ AllPositive(out.ranked)
    /\ Returned("recommend_files") => Descending(out.shown) /\ AllPositive(out.shown)

\* a path search whose ranking moved a later-enumerated file ahead of an earlier one
\* and left out a file of score 0
C1_Witness ==
    /\ Returned("fuzzy_search_files")
    /\ \E i, j \in 1..Len(out.ranked) :
            /\ i < j
            /\ out.ranked[i].score > out.ranked[j].score
            /\ TreeIndex(out.ranked[i].path) > TreeIndex(out.ranked[j].path)
    /\ \E i \in CodeFileIndices : tree[i].path \notin Paths(out.ranked)

\* what the claim says a file scores for one keyword
ClaimedKeywordScore(f, keyword) ==
    3 * ResultScore(fuzzy_match(keyword, Lower(f.path)))
        + 2 * ResultScore(fuzzy_match(keyword, Lower(Prefix(read_text(f), 1000))))

RECURSIVE ClaimedSum(_, _, _)
ClaimedSum(f, keywords, n) ==
    IF n = 0 THEN 0 ELSE ClaimedSum(f, keywords, n - 1) + ClaimedKeywordScore(f, keywords[n])

\* what the claim says file i of the directory totals for a feature description
ClaimedTotal(i, feature) ==
    LET keywords == Split(Lower(feature))
    IN  ClaimedSum(tree[i], keywords, Len(keywords))

\* C2: for feature recommendation a file's total is the sum over the keywords of the
\* lower-cased, whitespace-split description of 3 * fuzzy(keyword, path) +
\* 2 * fuzzy(keyword, first 1000 characters of the content) (path and content
\* lower-cased by the caller); files of total 0 are excluded and the result is the
\* (at most) 5 files of highest total.
C2_TotalIsWeightedSumTopFive ==
    Returned("recommend_files") =>
        LET positive == {i \in CodeFileIndices : ClaimedTotal(i, out.feature) > 0}
            listed == {i \in positive : tree[i].path \in Paths(out.shown)}
        IN  /\ Len(out.shown) = Min(5, Cardinality(positive))
            /\ Cardinality(Paths(out.shown)) = Len(out.shown)
            /\ Cardinality(listed) = Len(out.shown)
            /\ \A i \in listed : ScoreIn(out.shown, tree[i].path) = ClaimedTotal(i, out.feature)
            /\ \A i \in positive \ listed : \A j \in listed :
                    ClaimedTotal(i, out.feature) <= ClaimedTotal(j, out.feature)

\* a recommendation for several keywords that was cut to 5 and left out a file of total 0
C2_Witness ==
    /\ Returned("recommend_files")
    /\ Len(Split(Lower(out.feature))) >= 2
    /\ Len(out.shown) = 5
    /\ Cardinality({i \in CodeFileIndices : ClaimedTotal(i, out.feature) > 0}) > 5
    /\ \E i \in CodeFileIndices : ClaimedTotal(i, out.feature) = 0

LoginInPath(f) == Contains(Lower(f.path), "login")

LoginOnlyInContent(f) == ~LoginInPath(f) /\ Contains(Lower(read_text(f)), "login")

\* C3 as stated: for "user login" over two files, X with "login" in its path and Y
\* with "login" only in its content, X's total strictly exceeds Y's.
C3_PathFileAlwaysBeatsContentFile ==
    (Returned("recommend_files") /\ out.feature = "user login" /\ Cardinality(CodeFileIndices) = 2) =>
        \A x, y \in CodeFileIndices :
            (LoginInPath(tree[x]) /\ LoginOnlyInContent(tree[y])) =>
                ScoreIn(out.shown, tree[x].path) > ScoreIn(out.shown, tree[y].path)

\* Y's only non-zero signal is "login" in its content, and it scores there no more
\* than "login" scores on X's path
OnlyLoginContentCounts(x, y) ==
    /\ ResultScore(fuzzy_match("login", Lower(tree[y].path))) = 0
    /\ ResultScore(fuzzy_match("user", Lower(tree[y].path))) = 0
    /\ ResultScore(fuzzy_match("user", Lower(Prefix(read_text(tree[y]), 1000)))) = 0
    /\ ResultScore(fuzzy_match("login", Lower(tree[x].path)))
            >= ResultScore(fuzzy_match("login", Lower(Prefix(read_text(tree[y]), 1000))))

\* C3 (amended): for "user login" over two files, X with "login" in its path and Y
\* with "login" only in its content, X's total strictly exceeds Y's whenever "login"
\* in the content is Y's only non-zero signal and scores no more there than "login"
\* scores on X's path.
C3_PathBeatsContentOnEqualMatch ==
    (Returned("recommend_files") /\ out.feature = "user login" /\ Cardinality(CodeFileIndices) = 2) =>
        \A x, y \in CodeFileIndices :
            (LoginInPath(tree[x]) /\ LoginOnlyInContent(tree[y]) /\ OnlyLoginContentCounts(x, y)) =>
                ScoreIn(out.shown, tree[x].path) > ScoreIn(out.shown, tree[y].path)

\* "user login" recommended over such an X and Y, both listed
C3_Witness ==
    /\ Returned("recommend_files") /\ out.feature = "user login"
    /\ Cardinality(CodeFileIndices) = 2
    /\ \E x, y \in CodeFileIndices :
            /\ LoginInPath(tree[x]) /\ LoginOnlyInContent(tree[y]) /\ OnlyLoginContentCounts(x, y)
            /\ ScoreIn(out.shown, tree[y].path) > 0
            /\ ScoreIn(out.shown, tree[x].path) > ScoreIn(out.shown, tree[y].path)

\* entries of equal score stand in enumeration order
TiesInEnumerationOrder(list) ==
    \A i, j \in 1..Len(list) :
        (i < j /\ list[i].score = list[j].score) =>
            TreeIndex(list[i].path) < TreeIndex(list[j].path)

\* C4: in path search and in feature recommendation two results of equal score
\* appear in the order their files were enumerated, and when the recommendation is
\* cut to 5 a tie at the cut keeps the earlier-enumerated file.
C4_StableTies ==
    /\ Returned("fuzzy_search_files") => TiesInEnumerationOrder(out.ranked)
    /\ Returned("recommend_files") =>
            /\ TiesInEnumerationOrder(out.shown)
            /\ \A i \in CodeFileIndices : \A k \in 1..Len(out.shown) :
                    (/\ tree[i].path \notin Paths(out.shown)
                     /\ ClaimedTotal(i, out.feature) = out.shown[k].score)
                        => TreeIndex(out.shown[k].path) < i

\* a recommendation cut to 5 in the middle of a run of equal totals, the run not
\* being the first files enumerated
C4_Witness ==
    /\ Returned("recommend_files")
    /\ Len(out.shown) = 5
    /\ out.shown[4].score = out.shown[5].score
    /\ \E i \in CodeFileIndices :
            /\ tree[i].path \notin Paths(out.shown)
            /\ ClaimedTotal(i, out.feature) = out.shown[5].score
    /\ \E k \in 1..5 : TreeIndex(out.shown[k].path) > TreeIndex(out.shown[5].path)

\* what the claim says path search scores file i
ClaimedPathScore(i, query) == ResultScore(fuzzy_match(Lower(query), Lower(tree[i].path)))

\* C5: path search scores each enumerated file by the fuzzy score of (lower-cased
\* query, lower-cased relative path); the ranked list has exactly one entry for every
\* file of score > 0 and none for a file of score 0; the report lists the first
\* max_results entries of the ranked list and its 'more matches' count is the number
\* of ranked entries not listed.
C5_PathSearchListsPositiveScores ==
    /\ Returned("fuzzy_search_files") =>
            /\ \A i \in CodeFileIndices :
                    /\ Cardinality({k \in 1..Len(out.ranked) : out.ranked[k].path = tree[i].path})
                            = IF ClaimedPathScore(i, out.query) > 0 THEN 1 ELSE 0
                    /\ ScoreIn(out.ranked, tree[i].path) = ClaimedPathScore(i, out.query)
            /\ Paths(out.ranked) \subseteq {tree[i].path : i \in CodeFileIndices}
            /\ out.shown = SubSeq(out.ranked, 1, Min(out.max_results, Len(out.ranked)))
            /\ out.count = Len(out.shown)
            /\ out.more = Len(out.ranked) - Len(out.shown)
    /\ (out.op = "fuzzy_search_files" /\ out.status = "no_match") =>
            \A i \in CodeFileIndices : ClaimedPathScore(i, out.query) = 0

\* a path search that left out a file of score 0 and listed fewer entries than it ranked
C5_Witness ==
    /\ Returned("fuzzy_search_files")
    /\ out.max_results > 0
    /\ Len(out.ranked) > out.max_results
    /\ out.more > 0
    /\ \E i \in CodeFileIndices : ClaimedPathScore(i, out.query) = 0
    /\ \E i \in 1..Len(tree) : ~IsCodeFile(tree[i])

\* the rules that match a line, by their place in the pattern list
MatchingRules(line) == {k \in 1..NumPatterns : PatternSearch(k, line) # <<>>}

\* the groups captured by the first rule that matches a line
FirstGroups(line) == PatternSearch(Least(MatchingRules(line)), line)

IsRouteFile(f) == f.kind = "file" /\ Lower(Suffix(f.path)) \in {".py", ".js", ".ts", ".tsx", ".jsx"}

\* the lines matched by at least one rule: file by file in enumeration order from
\* position i of the directory on, and line by line within a file
RECURSIVE MatchedLinesFrom(_)
MatchedLinesFrom(i) ==
    IF i > Len(tree) THEN <<>>
    ELSE LET lines == SplitLines(read_text(tree[i]))
             hits == SelectSeq([l \in 1..Len(lines) |-> l],
                               LAMBDA l : MatchingRules(lines[l]) # {})
         IN  (IF IsRouteFile(tree[i])
              THEN [n \in 1..Len(hits) |-> [file |-> tree[i].path, lineno |-> hits[n],
                                            text |-> lines[hits[n]]]]
              ELSE <<>>) \o MatchedLinesFrom(i + 1)

\* C6: route extraction records at most one entry per source line: the rules are
\* tried in their fixed order and the entry is built from the first rule that
\* matches the line; entries come in file traversal order and, within a file, in
\* line order.
C6_OneEntryPerLineFirstRule ==
    Returned("scan_api_endpoints") =>
        LET matched == MatchedLinesFrom(1)
        IN  /\ Len(out.entries) = Len(matched)
            /\ \A n \in 1..Len(matched) :
                    LET groups == FirstGroups(matched[n].text)
                    IN  /\ out.entries[n].file = matched[n].file
                        /\ out.entries[n].line = Prefix(Strip(matched[n].text), 200)
                        /\ out.entries[n].path = groups[Len(groups)]

\* a scan of two route files, one of them with several entries, one entry coming
\* from a line that a later rule matches with another route
C6_Witness ==
    /\ Returned("scan_api_endpoints")
    /\ Cardinality({out.entries[n].file : n \in 1..Len(out.entries)}) = 2
    /\ \E n \in 1..(Len(out.entries) - 1) : out.entries[n].file = out.entries[n + 1].file
    /\ \E n \in 1..Len(MatchedLinesFrom(1)) :
            LET text == MatchedLinesFrom(1)[n].text
            IN  \E k \in MatchingRules(text) :
                    PatternSearch(k, text)[Len(PatternSearch(k, text))] # out.entries[n].path

\* the rules whose pattern captures an HTTP verb (three groups: object, verb, route)
VerbRules == {1, 3}

\* C7: the method of every entry is the upper-cased verb captured by the matching
\* rule when that rule captures one and "GET" when it captures none; the path is the
\* quoted route string the rule captured; the line @app.get("/users/{id}") yields
\* exactly one entry, with method GET and path /users/{id}.
C7_MethodUpperOrGet ==
    Returned("scan_api_endpoints") =>
        LET matched == MatchedLinesFrom(1)
        IN  /\ Len(out.entries) = Len(matched)
            /\ \A n \in 1..Len(matched) :
                    LET rule == Least(MatchingRules(matched[n].text))
                        groups == PatternSearch(rule, matched[n].text)
                    IN  /\ rule \in VerbRules =>
                                /\ out.entries[n].method = Upper(groups[2])
                                /\ out.entries[n].method \in
                                        {"GET", "POST", "PUT", "PATCH", "DELETE", "OPTIONS", "HEAD"}
                                /\ out.entries[n].path = groups[3]
                        /\ rule \notin VerbRules =>
                                /\ out.entries[n].method = "GET"
                                /\ out.entries[n].path = groups[1]
                        /\ matched[n].text = "@app.get(\"/users/{id}\")" =>
                                /\ out.entries[n].method = "GET"
                                /\ out.entries[n].path = "/users/{id}"

\* a scan that met the line @app.get("/users/{id}"), a verb written with a capital
\* and a rule without a verb
C7_Witness ==
    /\ Returned("scan_api_endpoints")
    /\ \E n \in 1..Len(out.entries) :
            /\ out.entries[n].line = "@app.get(\"/users/{id}\")"
            /\ out.entries[n].method = "GET" /\ out.entries[n].path = "/users/{id}"
    /\ \E n \in 1..Len(out.entries) :
            out.entries[n].line = "@api.Delete(\"/d\")" /\ out.entries[n].method = "DELETE"
    /\ \E n \in 1..Len(out.entries) :
            out.entries[n].line = "@app.route('/home')" /\ out.entries[n].method = "GET"

\* the lines of the file explain_file was called on
ExplainedLines == SplitLines(read_text(Lookup(out.file_path)[1]))

FirstHundred(lines) == SubSeq(lines, 1, Min(100, Len(lines)))

\* C8: extract_code_elements never inspects a line beyond the first 100: lines after
\* line 100 do not change the returned classes, functions or imports, and a
\* declaration on line 150 never appears.
C8_OnlyFirstHundredLines ==
    Returned("explain_file") =>
        /\ \A k \in 1..Len(out.elements.classes) : out.elements.classes[k].line <= 100
        /\ \A k \in 1..Len(out.elements.functions) : out.elements.functions[k].line <= 100
        /\ \A k \in 1..Len(out.elements.imports) :
                \E i \in 1..Min(100, Len(ExplainedLines)) :
                    Strip(ExplainedLines[i]) = out.elements.imports[k]
        /\ \A i \in 1..Len(tree) :
                (/\ tree[i].kind = "file" /\ ~Unreadable(tree[i])
                 /\ FirstHundred(SplitLines(read_text(tree[i]))) = FirstHundred(ExplainedLines))
                    => extract_code_elements(SplitLines(read_text(tree[i]))) = out.elements

\* explain_file on a file with a class declared on line 150, beside a file with the
\* same first 100 lines and other lines after them
C8_Witness ==
    /\ Returned("explain_file")
    /\ Len(ExplainedLines) >= 150
    /\ StartsWith(ExplainedLines[150], "class ")
    /\ out.elements.functions # <<>>
    /\ \E i \in 1..Len(tree) :
            /\ tree[i].kind = "file" /\ tree[i].path # out.file_path
            /\ SplitLines(read_text(tree[i])) # ExplainedLines
            /\ FirstHundred(SplitLines(read_text(tree[i]))) = FirstHundred(ExplainedLines)

\* s without its trailing colons
RECURSIVE WithoutTrailingColon(_)
WithoutTrailingColon(s) ==
    IF Len(s) > 0 /\ Ch(s, Len(s)) = ":" THEN WithoutTrailingColon(SubSeq(s, 1, Len(s) - 1)) ELSE s

\* the text after "class " and before the first "(", trailing ":" stripped
ClaimedClassName(stripped) ==
    WithoutTrailingColon(BeforeFirst(SubSeq(stripped, 7, Len(stripped)), "("))

\* the name after "def " and before "("
ClaimedFunctionName(stripped) == Strip(BeforeFirst(SubSeq(stripped, 5, Len(stripped)), "("))

ClaimedClasses(lines) ==
    LET at == SelectSeq([i \in 1..Min(100, Len(lines)) |-> i],
                        LAMBDA i : StartsWith(Strip(lines[i]), "class "))
    IN  [k \in 1..Len(at) |-> [name |-> ClaimedClassName(Strip(lines[at[k]])), line |-> at[k]]]

ClaimedFunctions(lines) ==
    LET at == SelectSeq([i \in 1..Min(100, Len(lines)) |-> i],
                        LAMBDA i : /\ StartsWith(Strip(lines[i]), "def ")
                                   /\ ~StartsWith(ClaimedFunctionName(Strip(lines[i])), "_"))
    IN  [k \in 1..Len(at) |-> [name |-> ClaimedFunctionName(Strip(lines[at[k]])), line |-> at[k]]]

\* C9: for every scanned line whose trimmed form starts with "class " the recorded
\* name is the text after the keyword and before the first "(" with a trailing ":"
\* stripped, with its 1-based line number; for every trimmed line starting with
\* "def " the name before "(" is recorded with its line number iff it does not
\* start with an underscore, and an excluded private function does not stop later
\* lines from being recorded.
C9_DeclaredNamesRecorded ==
    Returned("explain_file") =>
        /\ out.elements.classes = ClaimedClasses(ExplainedLines)
        /\ out.elements.functions = ClaimedFunctions(ExplainedLines)

ScanOps == {"recommend_files", "find_function_definition", "find_class_definition",
            "scan_api_endpoints"}

\* a file that cannot be read as text: reading it fails
UnreadableAsText(f) == f.kind = "file" /\ f.perm = "denied"

\* the directory holds one file that cannot be read as text and one valid file, both
\* with an extension every scan accepts
OneBadOneValid ==
    /\ rootKind = "dir" /\ Len(tree) = 2
    /\ \A i \in 1..2 : IsCodeFile(tree[i]) /\ IsRouteFile(tree[i])
    /\ Cardinality({i \in 1..2 : UnreadableAsText(tree[i])}) = 1

\* C10: when a scan runs over a directory holding one file that cannot be read as
\* text and one valid file, the unreadable file is skipped with its content treated
\* as empty, the valid file's results are still returned and no exception
\* propagates out of the scan.
C10_BadFileSkipped ==
    (out.op \in ScanOps /\ OneBadOneValid) =>
        LET bad == CHOOSE i \in 1..2 : UnreadableAsText(tree[i])
            valid == CHOOSE i \in 1..2 : ~UnreadableAsText(tree[i])
        IN  /\ out.status # "raise"
            /\ Returned("recommend_files") =>
                    /\ ScoreIn(out.shown, tree[valid].path) = ClaimedTotal(valid, out.feature)
                    /\ ScoreIn(out.shown, tree[bad].path)
                            = ClaimedSum([tree[bad] EXCEPT !.bytes = ""], Split(Lower(out.feature)),
                                         Len(Split(Lower(out.feature))))
            /\ Returned("scan_api_endpoints") =>
                    /\ \A n \in 1..Len(out.entries) : out.entries[n].file = tree[valid].path
                    /\ Len(out.entries) = Len(SelectSeq(MatchedLinesFrom(1),
                                                        LAMBDA m : m.file = tree[valid].path))
            /\ (Returned("find_function_definition") \/ Returned("find_class_definition")) =>
                    \A n \in 1..Len(out.shown) : out.shown[n].path = tree[valid].path

(***************************************************************************)
(* The root and the requested paths at call time.                          *)
(***************************************************************************)
ScannerOps == {"list_repositories", "fuzzy_search_files", "recommend_files", "explain_file",
               "get_file_content", "find_function_definition", "find_class_definition"}

FileOps == {"explain_file", "get_file_content"}

\* the explicit negative results: the directory or the file is not there
NegativeStatuses == {"not_found", "does_not_exist", "file_not_found"}

\* C11: every public operation of the scanner looks at the root again when it is
\* called: when the target directory does not exist or is not a directory, or the
\* requested file does not exist, the operation returns an explicit negative result
\* and raises nothing, also when the root was a directory at an earlier call and
\* has been removed or replaced by a file since.
C11_RootRevalidated ==
    /\ (out.op \in ScannerOps /\ rootKind # "dir") => out.status \in NegativeStatuses
    /\ (out.op \in FileOps /\ rootKind = "dir" /\ Lookup(out.file_path) = <<>>)
        => out.status = "file_not_found"

EmptyResultOps == {"fuzzy_search_files", "recommend_files", "find_function_definition",
                   "find_class_definition", "get_code_files", "scan_api_endpoints"}

\* nothing passed the extension filter, nothing scored above 0, or no declaration
\* or route was found
IsEmptyResult ==
    \/ out.status \in {"no_code_files", "no_match"}
    \/ Returned("recommend_files") /\ out.shown = <<>>
    \/ Returned("get_code_files") /\ out.files = <<>>
    \/ Returned("scan_api_endpoints") /\ out.entries = <<>>

\* what an operation returns when the directory does not exist
NonexistentDirectoryValue(op) ==
    IF op = "get_code_files" THEN [op |-> op, status |-> "ok", files |-> <<>>]
    ELSE IF op = "scan_api_endpoints" THEN [op |-> op, status |-> "ok", entries |-> <<>>]
    ELSE NotFound(op)

\* C12: an empty result found in an existing directory (no file passes the
\* extension filter, no match scores above 0, no declaration or route is found) is
\* returned as a normal value, not an error, and differs from the value the same
\* operation returns for a directory that does not exist; this holds for
\* fuzzy_search_files, recommend_files, find_function_definition,
\* find_class_definition, get_code_files and scan_api_endpoints.
C12_EmptyResultDiffersFromNotFound ==
    out.op \in EmptyResultOps =>
        /\ rootKind = "missing" => out = NonexistentDirectoryValue(out.op)
        /\ (rootKind = "dir" /\ IsEmptyResult) =>
                out.status # "raise" /\ out # NonexistentDirectoryValue(out.op)

\* the path asked of a file operation exists and is a directory
RequestedDirectory ==
    /\ out.op \in FileOps /\ rootKind = "dir"
    /\ Lookup(out.file_path) # <<>>
    /\ Lookup(out.file_path)[1].kind = "dir"

\* C13: when the path passed to explain_file or get_file_content exists but is a
\* directory, the operation returns the "is not a file" result; it neither raises
\* nor returns content.
C13_DirectoryIsNotAFile == RequestedDirectory => out.status = "not_a_file"

(***************************************************************************)
(* The configured root.                                                    *)
(***************************************************************************)
\* C14: the configured root is the only state kept between calls, and it changes
\* only through a set_codebase_path call that succeeded, which leaves it naming
\* the path it was given, a directory at that call; every query operation and
\* every failed set_codebase_path leaves codebase_root as it was.
C14_RootChangesOnlyBySuccessfulSet ==
    [][ /\ codebase_root' # codebase_root =>
            /\ out'.op = "set_codebase_path" /\ out'.status = "ok"
            /\ out'.path = codebase_root'
            /\ disk[codebase_root'].kind = "dir"
        /\ (out = NoOut /\ out'.op \in ScannerOps) => codebase_root' = codebase_root
        /\ (out = NoOut /\ out'.op = "set_codebase_path" /\ out'.status # "ok")
            => codebase_root' = codebase_root
      ]_vars

\* the root has been moved to another directory, and a later set_codebase_path on
\* a path that does not exist has failed
C14_Witness ==
    /\ codebase_root = "work"
    /\ out.op = "set_codebase_path" /\ out.status = "does_not_exist"

(***************************************************************************)
(* The file enumerator.                                                    *)
(***************************************************************************)
\* C15: get_code_files returns the empty sequence, and raises nothing, for a root
\* that does not exist or is not a directory; otherwise it returns exactly the
\* regular files under the root whose extension is in CODE_EXTENSIONS, each once,
\* never a directory and never a file with another extension.
C15_CodeFilesExactlyRecognizedFiles ==
    out.op = "get_code_files" =>
        /\ out.status = "ok"
        /\ rootKind # "dir" => out.files = <<>>
        /\ rootKind = "dir" =>
            /\ \A k \in 1..Len(out.files) :
                    /\ out.files[k].kind = "file"
                    /\ Suffix(out.files[k].path) \in CODE_EXTENSIONS
                    /\ \E i \in 1..Len(tree) : tree[i] = out.files[k]
            /\ \A i \in 1..Len(tree) :
                    (tree[i].kind = "file" /\ Suffix(tree[i].path) \in CODE_EXTENSIONS)
                        => \E k \in 1..Len(out.files) : out.files[k] = tree[i]
            /\ \A k, l \in 1..Len(out.files) : k # l => out.files[k] # out.files[l]

\* the listing of a directory that holds a directory named like a code file, a file
\* with another extension and a code file
C15_Witness ==
    /\ Returned("get_code_files") /\ rootKind = "dir"
    /\ out.files # <<>>
    /\ \E i \in 1..Len(tree) : tree[i].kind = "dir" /\ Suffix(tree[i].path) \in CODE_EXTENSIONS
    /\ \E i \in 1..Len(tree) : tree[i].kind = "file" /\ Suffix(tree[i].path) \notin CODE_EXTENSIONS

(***************************************************************************)
(* What a route entry carries.                                             *)
(***************************************************************************)
\* the keys of an entry besides the method, the path, the file and the line text
OtherKeys(entry) == DOMAIN entry \ {"method", "path", "file", "line"}

\* C16: every entry produced by route extraction carries, besides the method, the
\* path and the file, the 1-based number of the line it was found on, and the text
\* of that line (as kept, without surrounding whitespace) cut to 200 characters.
C16_EntryCarriesLineNumber ==
    Returned("scan_api_endpoints") =>
        LET matched == MatchedLinesFrom(1)
        IN  /\ Len(out.entries) = Len(matched)
            /\ \A n \in 1..Len(matched) :
                    /\ out.entries[n].file = matched[n].file
                    /\ out.entries[n].line = Prefix(Strip(matched[n].text), 200)
                    /\ \E k \in OtherKeys(out.entries[n]) :
                            out.entries[n][k] = matched[n].lineno

(***************************************************************************)
(* Cloning.                                                                *)
(***************************************************************************)
\* the positions of the git clone invocations among the effects of a call
CloneSteps(steps) == {i \in 1..Len(steps) : steps[i].kind = "clone"}

\* C17: in navigate_and_clone, git clone is invoked only after check_github_repo
\* has reported the repository accessible (HTTP 200) in the same call; when the
\* check reports anything else, its message alone is returned and neither a clone
\* nor a directory creation happens; and clone_github_repo never invokes git clone
\* on a destination that exists when it is called.
C17_CloneOnlyAfterAccessible ==
    [][ (out = NoOut /\ out'.op \in {"navigate_and_clone", "clone_github_repo"}) =>
            /\ out'.op = "navigate_and_clone" =>
                /\ \A i \in CloneSteps(effects') :
                        \E j \in 1..(i - 1) :
                            effects'[j].kind = "get" /\ effects'[j].code = 200
                /\ \A j \in 1..Len(effects') :
                        (effects'[j].kind = "get" /\ effects'[j].code # 200) =>
                            /\ out'.message = CheckMessage(effects'[j].code)
                            /\ effects' = <<effects'[j]>>
                            /\ existing' = existing
                /\ out'.status = "raise" => effects' = <<>> /\ existing' = existing
            /\ \A i \in CloneSteps(effects') : effects'[i].arg \notin existing
      ]_vars

\* navigate_and_clone has found the repository accessible and has run git clone
\* into a clone root it had to create
C17_Witness ==
    /\ out.op = "navigate_and_clone" /\ out.status = "ok"
    /\ CloneSteps(effects) # {}
    /\ "work" \in existing

\* C18: clone_github_repo returns the message "Cloned to <destination>" only when
\* the git clone it ran succeeded (exit code 0, the destination present
\* afterwards); when git clone fails, the message returned reports the failure.
C18_ClonedOnlyOnSuccess ==
    (out.op = "clone_github_repo" /\ out.status = "ok") =>
        /\ StartsWith(out.message, "Cloned to ") =>
                \E i \in CloneSteps(effects) :
                    /\ effects[i].code = 0
                    /\ effects[i].arg \in existing
                    /\ out.message = "Cloned to " \o effects[i].arg
        /\ (\E i \in CloneSteps(effects) : effects[i].code # 0) =>
                ~StartsWith(out.message, "Cloned to ")

(***************************************************************************)
(* The content window.                                                     *)
(***************************************************************************)
\* the lines of the file a returned window was cut from
WindowLines == SplitLines(read_text(Lookup(out.file_path)[1]))

\* C19: for every file and all integers start_line and num_lines, each line shown
\* by get_file_content is labelled with its true 1-based number in the file, the
\* header range "lines a-b" is the first and the last number shown, at most
\* num_lines lines are shown, and the count of the trailing "(N more lines)" is
\* the number of lines of the file after the last one shown.
C19_WindowLabelsTrueLineNumbers ==
    Returned("get_file_content") =>
        /\ Len(out.shown) <= Max(0, out.num_lines)
        /\ \E a \in 0..Len(WindowLines) :
            /\ \A k \in 1..Len(out.shown) :
                    /\ out.shown[k].label = a + k
                    /\ a + k <= Len(WindowLines)
                    /\ out.shown[k].text = WindowLines[a + k]
            /\ out.shown # <<>> =>
                    /\ out.from = a + 1
                    /\ out.to = a + Len(out.shown)
                    /\ out.more = Len(WindowLines) - (a + Len(out.shown))

====
